---- MODULE Spec2Model ----
(***************************************************************************)
(* AlphaFactory (src/app.py): one Streamlit script that, when the run      *)
(* button is pressed, downloads a price panel, derives daily returns,      *)
(* rolling scores, a top-N equal-weight portfolio return series, its       *)
(* cumulative growth, Sharpe ratio and total return, compares them with a  *)
(* benchmark (SPY) and writes an HTML report.                              *)
(*                                                                         *)
(* Numbers.  The script computes in binary floating point (numpy float64). *)
(* The model keeps the rounding and scales the significand down: a number  *)
(* is a pair <<m, e>> standing for m * 2^e with |m| < 2^MantBits, every    *)
(* arithmetic operation is rounded to nearest, ties to even, as IEEE 754   *)
(* does.  The exponent is unbounded (no overflow, no subnormals: prices    *)
(* and returns are far from float64's range limits).  nan, inf and -inf    *)
(* are kept, because division by zero produces them instead of raising.    *)
(***************************************************************************)
EXTENDS Integers, Sequences, FiniteSets, TLC

(***************************************************************************)
(* Bounds of the model.                                                    *)
(***************************************************************************)
\* significand width of the scaled-down binary floating point (float64: 53)
MantBits == 6
\* the price source returns at most this many trading dates
MaxDates == 5
\* the slider of src/app.py:20 runs 1..10; the model's runs 1..MaxTopN
MaxTopN == 2
\* lookback of the rolling score, 30 at src/app.py:40, scaled down
window == 2

(***************************************************************************)
(* Floating point.                                                         *)
(***************************************************************************)
RECURSIVE Pow2(_)
Pow2(n) == IF n <= 0 THEN 1 ELSE 2 * Pow2(n - 1)

Abs(x) == IF x < 0 THEN -x ELSE x

NaN == <<0, 1000>>
PInf == <<1, 1000>>
NInf == <<-1, 1000>>
Zero == <<0, 0>>
One == <<1, 0>>

IsNaN(x) == x = NaN
IsInf(x) == x = PInf \/ x = NInf
Sign(x) == IF x[1] > 0 THEN 1 ELSE IF x[1] < 0 THEN -1 ELSE 0

\* the canonical pair of m * 2^e: m odd, or <<0, 0>>
RECURSIVE Canon(_, _)
Canon(m, e) ==
    IF m = 0 THEN Zero
    ELSE IF m % 2 = 0 THEN Canon(m \div 2, e + 1)
    ELSE <<m, e>>

\* a / d * 2^e for a > 0, d > 0, rounded to MantBits significant bits,
\* to nearest, ties to even; sgn is the sign of the result
RECURSIVE RoundPos(_, _, _, _)
RoundPos(sgn, a, d, e) ==
    IF a < d * Pow2(MantBits - 1) THEN RoundPos(sgn, 2 * a, d, e - 1)
    ELSE IF a >= d * Pow2(MantBits) THEN RoundPos(sgn, a, 2 * d, e + 1)
    ELSE LET q == a \div d
             r == a % d
             up == (2 * r > d) \/ (2 * r = d /\ q % 2 = 1)
         IN  Canon(sgn * (IF up THEN q + 1 ELSE q), e)

\* the float nearest to n / d * 2^e (d > 0)
Round(n, d, e) ==
    IF n = 0 THEN Zero
    ELSE RoundPos(IF n < 0 THEN -1 ELSE 1, Abs(n), d, e)

FromInt(n) == Round(n, 1, 0)

FNeg(x) == IF IsNaN(x) THEN NaN ELSE <<-x[1], x[2]>>

\* x + y
FAdd(x, y) ==
    IF IsNaN(x) \/ IsNaN(y) THEN NaN
    ELSE IF IsInf(x) /\ IsInf(y) THEN (IF x = y THEN x ELSE NaN)
    ELSE IF IsInf(x) THEN x
    ELSE IF IsInf(y) THEN y
    ELSE IF x[1] = 0 THEN y
    ELSE IF y[1] = 0 THEN x
    \* an operand below a quarter of the other's last place cannot move it
    ELSE IF x[2] - y[2] > 2 * MantBits + 2 THEN x
    ELSE IF y[2] - x[2] > 2 * MantBits + 2 THEN y
    ELSE LET lo == IF x[2] < y[2] THEN x[2] ELSE y[2]
         IN  Round(x[1] * Pow2(x[2] - lo) + y[1] * Pow2(y[2] - lo), 1, lo)

FSub(x, y) == FAdd(x, FNeg(y))

\* x * y
FMul(x, y) ==
    IF IsNaN(x) \/ IsNaN(y) THEN NaN
    ELSE IF IsInf(x) \/ IsInf(y)
         THEN (IF Sign(x) * Sign(y) = 0 THEN NaN
               ELSE IF Sign(x) * Sign(y) > 0 THEN PInf ELSE NInf)
    ELSE Round(x[1] * y[1], 1, x[2] + y[2])

\* x / y: numpy's float division, which yields inf or nan on a zero divisor
FDiv(x, y) ==
    IF IsNaN(x) \/ IsNaN(y) THEN NaN
    ELSE IF IsInf(x) THEN (IF IsInf(y) THEN NaN
                           ELSE IF Sign(x) * (IF y[1] < 0 THEN -1 ELSE 1) > 0
                                THEN PInf ELSE NInf)
    ELSE IF IsInf(y) THEN Zero
    ELSE IF y[1] = 0 THEN (IF x[1] = 0 THEN NaN
                           ELSE IF x[1] > 0 THEN PInf ELSE NInf)
    ELSE Round(x[1] * (IF y[1] < 0 THEN -1 ELSE 1), Abs(y[1]), x[2] - y[2])

\* x < y on finite floats
FLess(x, y) ==
    LET lo == IF x[2] < y[2] THEN x[2] ELSE y[2]
    IN  IF x[1] = 0 THEN y[1] > 0
        ELSE IF y[1] = 0 THEN x[1] < 0
        ELSE IF Sign(x) # Sign(y) THEN Sign(x) < Sign(y)
        ELSE IF x[2] - y[2] > MantBits THEN x[1] < 0
        ELSE IF y[2] - x[2] > MantBits THEN y[1] > 0
        ELSE x[1] * Pow2(x[2] - lo) < y[1] * Pow2(y[2] - lo)

\* x > y as Python compares floats: False when either side is nan
FGreater(x, y) ==
    IF IsNaN(x) \/ IsNaN(y) THEN FALSE
    ELSE IF x = y THEN FALSE
    ELSE IF x = PInf \/ y = NInf THEN TRUE
    ELSE IF x = NInf \/ y = PInf THEN FALSE
    ELSE FLess(y, x)

\* the largest s with s * s <= n, searched in lo..hi
RECURSIVE ISqrt(_, _, _)
ISqrt(n, lo, hi) ==
    IF lo >= hi THEN lo
    ELSE LET mid == (lo + hi + 1) \div 2
         IN  IF mid * mid <= n THEN ISqrt(n, mid, hi) ELSE ISqrt(n, lo, mid - 1)

\* m * 2^e with e even and m >= 4^(MantBits+1): its root has more than
\* MantBits bits, so an inexact root lies strictly between two integers
\* and never on a rounding tie
RECURSIVE SqrtScaled(_, _)
SqrtScaled(m, e) ==
    IF m < Pow2(2 * MantBits + 2) THEN SqrtScaled(4 * m, e - 2)
    ELSE LET s == ISqrt(m, 0, Pow2(MantBits + 3))
         IN  IF s * s = m THEN Round(s, 1, e \div 2)
             ELSE Round(2 * s + 1, 2, e \div 2)

\* sqrt(x), correctly rounded
FSqrt(x) ==
    IF IsNaN(x) \/ x[1] < 0 THEN NaN
    ELSE IF x = PInf THEN PInf
    ELSE IF x[1] = 0 THEN Zero
    ELSE IF x[2] % 2 = 0 THEN SqrtScaled(x[1], x[2])
    ELSE SqrtScaled(2 * x[1], x[2] - 1)


(***************************************************************************)
(* pandas / numpy reductions on sequences of floats.                       *)
(***************************************************************************)
\* sum, accumulated left to right, each addition rounded
RECURSIVE FSum(_)
FSum(xs) ==
    IF Len(xs) = 0 THEN Zero
    ELSE IF Len(xs) = 1 THEN xs[1]
    ELSE FAdd(FSum(SubSeq(xs, 1, Len(xs) - 1)), xs[Len(xs)])

\* Series.mean(): sum / count; nan on an empty series
FMean(xs) == FDiv(FSum(xs), FromInt(Len(xs)))

\* Series.std(), ddof = 1: nan when there are fewer than two values
FStd(xs) ==
    IF Len(xs) < 2 THEN NaN
    ELSE LET avg == FMean(xs)
             sq == [i \in 1..Len(xs) |->
                       FMul(FSub(avg, xs[i]), FSub(avg, xs[i]))]
         IN  FSqrt(FDiv(FSum(sq), FromInt(Len(xs) - 1)))

\* mutant of CumProd: xs.cumprod(), without the "1 +"
RECURSIVE CumProdAt_raw(_, _)
CumProdAt_raw(xs, i) ==
    IF i = 1 THEN xs[1] ELSE FMul(CumProdAt_raw(xs, i - 1), xs[i])

CumProd_raw(xs) == [i \in 1..Len(xs) |-> CumProdAt_raw(xs, i)]

\* the running product of 1 + xs up to position i, multiplied in order
RECURSIVE CumProdAt(_, _)
CumProdAt(xs, i) ==
    IF i = 1 THEN FAdd(One, xs[1])
    ELSE FMul(CumProdAt(xs, i - 1), FAdd(One, xs[i]))

\* (1 + xs).cumprod()
CumProd(xs) == [i \in 1..Len(xs) |-> CumProdAt(xs, i)]

(***************************************************************************)
(* Tables.  A DataFrame is a sequence of rows [date, vals], one value per  *)
(* column, the columns being the tickers in their order; a Series is a     *)
(* sequence of entries [date, val].  Dates are trading-day numbers.        *)
(***************************************************************************)
Unset == <<>>

Range(f) == {f[i] : i \in DOMAIN f}

\* the position of column `name` among `cols`
ColIndex(cols, name) == CHOOSE i \in 1..Len(cols) : cols[i] = name

\* mutant of loc: the row of the date before d (a one-day lag)
loc_lagged(df, d) == CHOOSE r \in Range(df) : r.date = d - 1

\* df.loc[d]: the row whose index label is d
loc(df, d) == CHOOSE r \in Range(df) : r.date = d

\* df.loc[d, names]: the row's values in the named columns, in that order
loc_cols(df, cols, d, names) ==
    [k \in 1..Len(names) |-> loc(df, d).vals[ColIndex(cols, names[k])]]

Index(df) == [i \in 1..Len(df) |-> df[i].date]
Values(series) == [i \in 1..Len(series) |-> series[i].val]
Column(df, c) == [i \in 1..Len(df) |-> df[i].vals[c]]

\* mutant of pct_change: the price ratio, without the "- 1"
pct_change_ratio(df) ==
    [i \in 1..(Len(df) - 1) |->
        [date |-> df[i + 1].date,
         vals |-> [c \in 1..Len(df[i + 1].vals) |->
                     FDiv(df[i + 1].vals[c], df[i].vals[c])]]]

\* data.pct_change().dropna(): value / previous value - 1; the first row,
\* which has no previous value, is all nan and is dropped
pct_change(df) ==
    [i \in 1..(Len(df) - 1) |->
        [date |-> df[i + 1].date,
         vals |-> [c \in 1..Len(df[i + 1].vals) |->
                     FSub(FDiv(df[i + 1].vals[c], df[i].vals[c]), One)]]]

\* the score of one column over one full window of returns
window_score(kind, xs) ==
    IF kind = "Momentum" THEN FMean(xs) ELSE FNeg(FStd(xs))

\* mutant of rolling_scores: the window stops one date short of the row's
rolling_scores_short(df, kind, w) ==
    [j \in 1..(IF Len(df) >= w THEN Len(df) - w + 1 ELSE 0) |->
        [date |-> df[j + w - 1].date,
         vals |-> [c \in 1..Len(df[j + w - 1].vals) |->
                     window_score(kind, SubSeq(Column(df, c), j, j + w - 2))]]]

\* rolling(w).<mean|std>() then dropna(): the rows before the window is
\* full are nan and are dropped
rolling_scores(df, kind, w) ==
    [j \in 1..(IF Len(df) >= w THEN Len(df) - w + 1 ELSE 0) |->
        [date |-> df[j + w - 1].date,
         vals |-> [c \in 1..Len(df[j + w - 1].vals) |->
                     window_score(kind, SubSeq(Column(df, c), j, j + w - 1))]]]

\* every ordering of 1..n
RECURSIVE Perms(_)
Perms(n) ==
    IF n = 0 THEN {<<>>}
    ELSE {[i \in 1..n |-> IF i < k THEN p[i] ELSE IF i = k THEN n ELSE p[i - 1]] :
             p \in Perms(n - 1), k \in 1..n}

Descending(vals, p) ==
    \A i, j \in 1..Len(p) : i < j => ~FLess(vals[p[i]], vals[p[j]])

TiesInOrder(vals, p) ==
    \A i, j \in 1..Len(p) : (i < j /\ vals[p[i]] = vals[p[j]]) => p[i] < p[j]

\* mutant of nlargest: an unstable sort whatever n is
nlargest_unstable(vals, n) ==
    {SubSeq(p, 1, IF n < Len(vals) THEN n ELSE Len(vals)) :
        p \in {q \in Perms(Len(vals)) : Descending(vals, q)}}

\* Series.nlargest(n), keep = "first": the orderings pandas can return, as
\* sequences of column positions.  With n below the length pandas selects
\* with a stable (merge) sort, so equal values keep their column order.
\* With n at or above the length it returns sort_values(ascending=False)
\* .head(n): every value, by the default quicksort, which is not stable, so
\* the order among equal values is whatever the numpy build produces.
nlargest(vals, n) ==
    IF n >= Len(vals)
    THEN {p \in Perms(Len(vals)) : Descending(vals, p)}
    ELSE {SubSeq(p, 1, n) :
             p \in {q \in Perms(Len(vals)) :
                      Descending(vals, q) /\ TiesInOrder(vals, q)}}

\* series.iloc[-1]; IndexError on an empty series is the caller's guard
iloc_last(series) == series[Len(series)].val

\* mean / std * np.sqrt(252)
sharpe(xs) == FMul(FDiv(FMean(xs), FStd(xs)), FSqrt(FromInt(252)))


(***************************************************************************)
(* Inputs.                                                                 *)
(***************************************************************************)
\* what the user can type in the ticker box, split at the commas; a token
\* stands for its stripped, upper-cased text, "" for a blank one
TickerInputs == {<<"">>, <<"AAPL">>, <<"AAPL", "">>, <<"AAPL", "MSFT">>}

Strategies == {"Momentum", "Low Volatility"}

\* the adjusted-close histories the price source can return for a symbol:
\* the pattern repeated over the dates of the range
PricePatterns == {<<2, 2, 2>>, <<2, 3, 3>>, <<2, 2, 3>>, <<1, 2, 3>>, <<3, 1, 2>>}

PriceAt(pat, d) == FromInt(pat[((d - 1) % Len(pat)) + 1])

\* the frame yf.download(...)["Adj Close"] returns: n dates, one column per
\* ticker, pats[c] the history of column c
Frame(pats, n) ==
    [d \in 1..n |-> [date |-> d,
                     vals |-> [c \in 1..Len(pats) |-> PriceAt(pats[c], d)]]]

(***************************************************************************)
(* State.                                                                  *)
(***************************************************************************)
VARIABLES
    pc,                  \* the statement the script is at
    ticker_input, strategy, top_n,          \* the sidebar's widgets
    tickers, data, daily_returns, scores,
    date, top_stocks,    \* the selection loop's variables
    portfolio_returns, cumulative_returns,
    sharpe_ratio, total_return,
    benchmark_data, benchmark_returns, benchmark_cum,
    benchmark_sharpe, benchmark_total,
    html_out,            \* the report as rendered
    report_file,         \* AlphaFactory_Report.html on disk
    ui                   \* what the page shows, in the order it was emitted

vars == <<pc, ticker_input, strategy, top_n, tickers, data, daily_returns,
          scores, date, top_stocks, portfolio_returns, cumulative_returns,
          sharpe_ratio, total_return, benchmark_data, benchmark_returns,
          benchmark_cum, benchmark_sharpe, benchmark_total, html_out,
          report_file, ui>>

widgets == <<ticker_input, strategy, top_n>>
strategy_vars == <<tickers, data, daily_returns, scores, date, top_stocks,
                   portfolio_returns, cumulative_returns, sharpe_ratio,
                   total_return>>
benchmark_vars == <<benchmark_data, benchmark_returns, benchmark_cum,
                    benchmark_sharpe, benchmark_total>>
report_vars == <<html_out, report_file>>

Element(kind, label, value) == [kind |-> kind, label |-> label, value |-> value]

\* st.metric(label, value)
Metric(label, value) == Element("metric", label, value)

\* the except clause: st.error(f"An error occurred: {e}")
Caught(exc) == Element("error", exc, Unset)

Init ==
    /\ pc = "idle"
    /\ ticker_input \in TickerInputs
    /\ strategy \in Strategies
    /\ top_n \in 1..MaxTopN
    /\ tickers = <<>>
    /\ data = <<>>
    /\ daily_returns = <<>>
    /\ scores = <<>>
    /\ date = 0
    /\ top_stocks = <<>>
    /\ portfolio_returns = <<>>
    /\ cumulative_returns = <<>>
    /\ sharpe_ratio = Unset
    /\ total_return = Unset
    /\ benchmark_data = <<>>
    /\ benchmark_returns = <<>>
    /\ benchmark_cum = <<>>
    /\ benchmark_sharpe = Unset
    /\ benchmark_total = Unset
    /\ html_out = Unset
    /\ report_file = Unset
    /\ ui = <<>>

(***************************************************************************)
(* The script, statement by statement.                                     *)
(***************************************************************************)
\* [t.strip().upper() for t in ticker_input.split(",") if t.strip()]
ParseTickers(input) == SelectSeq(input, LAMBDA t : t # "")

\* the run button: parse the tickers, stop with a warning when none is left
RunBacktest ==
    /\ pc = "idle"
    /\ tickers' = ParseTickers(ticker_input)
    /\ IF Len(tickers') = 0
       THEN /\ ui' = Append(ui, Element("warning", "Please enter at least one valid ticker.", Unset))
            /\ pc' = "stopped"
       ELSE /\ ui' = ui
            /\ pc' = "download"
    /\ UNCHANGED <<widgets, data, daily_returns, scores, date, top_stocks,
                   portfolio_returns, cumulative_returns, sharpe_ratio,
                   total_return, benchmark_vars, report_vars>>

\* mutant of DownloadPrices: the empty frame is reported but the run goes on
DownloadPrices_no_stop ==
    /\ pc = "download"
    /\ \E n \in 0..MaxDates, pats \in [1..Len(tickers) -> PricePatterns] :
          data' = Frame(pats, n)
    /\ ui' = IF Len(data') = 0
             THEN Append(ui, Element("error", "No data found. Please check tickers or dates.", Unset))
             ELSE ui
    /\ pc' = "returns"
    /\ UNCHANGED <<widgets, tickers, daily_returns, scores, date, top_stocks,
                   portfolio_returns, cumulative_returns, sharpe_ratio,
                   total_return, benchmark_vars, report_vars>>

\* yf.download(tickers, ...)["Adj Close"]; an empty frame ends the run:
\* st.error, then st.stop(), whose exception the except clause does not catch
DownloadPrices ==
    /\ pc = "download"
    /\ \E n \in 0..MaxDates, pats \in [1..Len(tickers) -> PricePatterns] :
          data' = Frame(pats, n)
    /\ IF Len(data') = 0
       THEN /\ ui' = Append(ui, Element("error", "No data found. Please check tickers or dates.", Unset))
            /\ pc' = "stopped"
       ELSE /\ ui' = ui
            /\ pc' = "returns"
    /\ UNCHANGED <<widgets, tickers, daily_returns, scores, date, top_stocks,
                   portfolio_returns, cumulative_returns, sharpe_ratio,
                   total_return, benchmark_vars, report_vars>>

\* daily_returns = data.pct_change().dropna()
ComputeReturns ==
    /\ pc = "returns"
    /\ daily_returns' = pct_change(data)
    /\ pc' = "scores"
    /\ UNCHANGED <<widgets, tickers, data, scores, date, top_stocks,
                   portfolio_returns, cumulative_returns, sharpe_ratio,
                   total_return, benchmark_vars, report_vars, ui>>

\* scores = rolling mean, or minus rolling std, of the returns; dropna()
ComputeScores ==
    /\ pc = "scores"
    /\ scores' = rolling_scores(daily_returns, strategy, window)
    /\ pc' = "select"
    /\ UNCHANGED <<widgets, tickers, data, daily_returns, date, top_stocks,
                   portfolio_returns, cumulative_returns, sharpe_ratio,
                   total_return, benchmark_vars, report_vars, ui>>

\* mutant of SelectAndAggregate: top_n above the number of symbols raises
SelectAndAggregate_checked ==
    /\ pc = "select"
    /\ Len(portfolio_returns) < Len(scores)
    /\ IF top_n > Len(tickers)
       THEN /\ ui' = Append(ui, Caught("ConfigurationError"))
            /\ pc' = "failed"
            /\ UNCHANGED <<date, top_stocks, portfolio_returns>>
       ELSE LET row == scores[Len(portfolio_returns) + 1]
            IN  /\ date' = row.date
                /\ \E sel \in nlargest(row.vals, top_n) :
                      top_stocks' = [k \in 1..Len(sel) |-> tickers[sel[k]]]
                /\ portfolio_returns' =
                      Append(portfolio_returns,
                             [date |-> row.date,
                              val |-> FMean(loc_cols(daily_returns, tickers,
                                                     row.date, top_stocks'))])
                /\ UNCHANGED <<pc, ui>>
    /\ UNCHANGED <<widgets, tickers, data, daily_returns, scores,
                   cumulative_returns, sharpe_ratio, total_return,
                   benchmark_vars, report_vars>>

\* one turn of "for date in scores.index": the top stocks of the date, and
\* the mean of their returns on that date
SelectAndAggregate ==
    /\ pc = "select"
    /\ Len(portfolio_returns) < Len(scores)
    /\ LET row == scores[Len(portfolio_returns) + 1]
       IN  /\ date' = row.date
           /\ \E sel \in nlargest(row.vals, top_n) :
                 top_stocks' = [k \in 1..Len(sel) |-> tickers[sel[k]]]
           /\ portfolio_returns' =
                 Append(portfolio_returns,
                        [date |-> row.date,
                         val |-> FMean(loc_cols(daily_returns, tickers,
                                                row.date, top_stocks'))])
    /\ UNCHANGED <<pc, widgets, tickers, data, daily_returns, scores,
                   cumulative_returns, sharpe_ratio, total_return,
                   benchmark_vars, report_vars, ui>>

\* portfolio_returns = pd.Series(dict(...)); (1 + portfolio_returns).cumprod()
CumulativeReturns ==
    /\ pc = "select"
    /\ Len(portfolio_returns) = Len(scores)
    /\ cumulative_returns' =
          LET c == CumProd(Values(portfolio_returns))
          IN  [i \in 1..Len(portfolio_returns) |->
                  [date |-> portfolio_returns[i].date, val |-> c[i]]]
    /\ pc' = "plot"
    /\ UNCHANGED <<widgets, tickers, data, daily_returns, scores, date,
                   top_stocks, portfolio_returns, sharpe_ratio, total_return,
                   benchmark_vars, report_vars, ui>>

\* the first chart.  Plotting an empty series raises TypeError ("no numeric
\* data to plot") where pd.Series({}) is of dtype object, and draws an empty
\* chart where it is of dtype float64: either, by the pandas installed
PlotStrategy ==
    /\ pc = "plot"
    /\ \/ /\ ui' = Append(ui, Element("chart", "Strategy Cumulative Returns", Unset))
          /\ pc' = "summarize"
       \/ /\ Len(cumulative_returns) = 0
          /\ ui' = Append(ui, Caught("TypeError"))
          /\ pc' = "failed"
    /\ UNCHANGED <<widgets, strategy_vars, benchmark_vars, report_vars>>

\* mutant of Summarize: the Sharpe ratio is shown as soon as it is computed,
\* before the total return is taken
Summarize_figure_first ==
    /\ pc = "summarize"
    /\ sharpe_ratio' = sharpe(Values(portfolio_returns))
    /\ IF Len(cumulative_returns) = 0
       THEN /\ total_return' = total_return
            /\ ui' = ui \o <<Metric("Sharpe Ratio", sharpe_ratio'), Caught("IndexError")>>
            /\ pc' = "failed"
       ELSE /\ total_return' = FSub(iloc_last(cumulative_returns), One)
            /\ ui' = Append(ui, Metric("Sharpe Ratio", sharpe_ratio'))
            /\ pc' = "metrics"
    /\ UNCHANGED <<widgets, tickers, data, daily_returns, scores, date,
                   top_stocks, portfolio_returns, cumulative_returns,
                   benchmark_vars, report_vars>>

\* sharpe_ratio and total_return; iloc[-1] of an empty series raises
Summarize ==
    /\ pc = "summarize"
    /\ sharpe_ratio' = sharpe(Values(portfolio_returns))
    /\ IF Len(cumulative_returns) = 0
       THEN /\ total_return' = total_return
            /\ ui' = Append(ui, Caught("IndexError"))
            /\ pc' = "failed"
       ELSE /\ total_return' = FSub(iloc_last(cumulative_returns), One)
            /\ ui' = ui
            /\ pc' = "metrics"
    /\ UNCHANGED <<widgets, tickers, data, daily_returns, scores, date,
                   top_stocks, portfolio_returns, cumulative_returns,
                   benchmark_vars, report_vars>>

\* st.metric("Sharpe Ratio", ...); st.metric("Total Return", ...)
ShowMetrics ==
    /\ pc = "metrics"
    /\ ui' = ui \o <<Metric("Sharpe Ratio", sharpe_ratio),
                     Metric("Total Return", total_return)>>
    /\ pc' = "benchmark"
    /\ UNCHANGED <<widgets, strategy_vars, benchmark_vars, report_vars>>


\* series.loc[index]: the entries at the labels of `index`, in its order
reindex(series, index) ==
    [i \in 1..Len(index) |->
        CHOOSE r \in Range(series) : r.date = index[i]]

HasLabels(series, index) ==
    \A i \in 1..Len(index) : \E r \in Range(series) : r.date = index[i]

\* the one column of a single-symbol frame, as a series
AsSeries(df) == [i \in 1..Len(df) |-> [date |-> df[i].date, val |-> df[i].vals[1]]]

\* yf.download("SPY", ...)["Adj Close"] over the same range of dates; the
\* source may return nothing
DownloadBenchmark ==
    /\ pc = "benchmark"
    /\ \E n \in {0, Len(data)}, pat \in PricePatterns :
          benchmark_data' = Frame(<<pat>>, n)
    /\ pc' = "benchmark_stats"
    /\ UNCHANGED <<widgets, strategy_vars, benchmark_returns, benchmark_cum,
                   benchmark_sharpe, benchmark_total, report_vars, ui>>

\* lines 71-76: the benchmark's returns, then its cumulative growth over
\* all of them, and only then both cut down to the strategy's dates
\* (KeyError when the benchmark lacks one of them)
ComputeBenchmark ==
    /\ pc = "benchmark_stats"
    /\ LET all_returns == AsSeries(pct_change(benchmark_data))
           c == CumProd(Values(all_returns))
           all_cum == [i \in 1..Len(all_returns) |->
                          [date |-> all_returns[i].date, val |-> c[i]]]
           index == Index(portfolio_returns)
       IN  IF ~HasLabels(all_returns, index)
           THEN /\ benchmark_returns' = all_returns
                /\ benchmark_cum' = all_cum
                /\ UNCHANGED <<benchmark_sharpe, benchmark_total>>
                /\ ui' = Append(ui, Caught("KeyError"))
                /\ pc' = "failed"
           ELSE /\ benchmark_returns' = reindex(all_returns, index)
                /\ benchmark_cum' = reindex(all_cum, index)
                /\ benchmark_sharpe' = sharpe(Values(benchmark_returns'))
                /\ benchmark_total' = FSub(iloc_last(benchmark_cum'), One)
                /\ ui' = ui
                /\ pc' = "plot2"
    /\ UNCHANGED <<widgets, strategy_vars, benchmark_data, report_vars>>

\* the second chart: strategy against SPY
PlotComparison ==
    /\ pc = "plot2"
    /\ ui' = Append(ui, Element("chart", "Strategy vs Benchmark", Unset))
    /\ pc' = "render"
    /\ UNCHANGED <<widgets, strategy_vars, benchmark_vars, report_vars>>

\* open("report_template.html") and render it; the file may be missing
RenderReport ==
    /\ pc = "render"
    /\ \/ /\ html_out' =
                [tickers |-> tickers, strategy |-> strategy, top_n |-> top_n,
                 sharpe_ratio |-> sharpe_ratio, total_return |-> total_return,
                 benchmark_sharpe |-> benchmark_sharpe,
                 benchmark_total |-> benchmark_total,
                 summary |-> IF FGreater(total_return, benchmark_total)
                             THEN "outperformed" ELSE "underperformed"]
          /\ ui' = ui
          /\ pc' = "write"
       \/ /\ html_out' = html_out
          /\ ui' = Append(ui, Caught("FileNotFoundError"))
          /\ pc' = "failed"
    /\ UNCHANGED <<widgets, strategy_vars, benchmark_vars, report_file>>

\* write AlphaFactory_Report.html and offer it for download
WriteReport ==
    /\ pc = "write"
    /\ report_file' = html_out
    /\ ui' = Append(ui, Element("download_button", "Download Strategy Report (HTML)", Unset))
    /\ pc' = "done"
    /\ UNCHANGED <<widgets, strategy_vars, benchmark_vars, html_out>>

Next ==
    \/ RunBacktest
    \/ DownloadPrices
    \/ ComputeReturns
    \/ ComputeScores
    \/ SelectAndAggregate
    \/ CumulativeReturns
    \/ PlotStrategy
    \/ Summarize
    \/ ShowMetrics
    \/ DownloadBenchmark
    \/ ComputeBenchmark
    \/ PlotComparison
    \/ RenderReport
    \/ WriteReport

Spec == Init /\ [][Next]_vars


(***************************************************************************)
(* Properties.                                                             *)
(***************************************************************************)
\* where the script is, by what it has already computed
ReturnsDone == pc \in {"scores", "select", "plot", "summarize", "metrics",
                       "benchmark", "benchmark_stats", "plot2", "render",
                       "write", "done", "failed"}
ScoresDone == ReturnsDone /\ pc # "scores"
SeriesDone == ScoresDone /\ pc # "select"
Shown(kind) == {ui[i] : i \in {j \in 1..Len(ui) : ui[j].kind = kind}}
MetricShown(label) == \E m \in Shown("metric") : m.label = label
ErrorShown(label) == \E m \in Shown("error") : m.label = label

\* exact (unrounded) arithmetic on finite pairs m * 2^e, for error bounds
MinExp(x, y) == IF x[2] < y[2] THEN x[2] ELSE y[2]
XMul(x, y) == <<x[1] * y[1], x[2] + y[2]>>
XAdd(x, y) == <<x[1] * Pow2(x[2] - MinExp(x, y)) + y[1] * Pow2(y[2] - MinExp(x, y)),
                MinExp(x, y)>>
XNeg(x) == <<-x[1], x[2]>>
XAbs(x) == <<Abs(x[1]), x[2]>>
XLeq(x, y) == XAdd(y, XNeg(x))[1] >= 0

\* the dates of a frame, as a set, and the rows strictly before a date
Dates(df) == {df[i].date : i \in 1..Len(df)}
RowOf(df, d) == CHOOSE i \in 1..Len(df) : df[i].date = d
PrevDate(df, d) == CHOOSE e \in Dates(df) :
                      e < d /\ \A f \in Dates(df) : f < d => f <= e

\* price[d-1] * (1 + return[d]) - price[d], exactly
RoundTripError(prev, ret, price) ==
    XAdd(XMul(prev, XAdd(One, ret)), XNeg(price))

\* C10 as stated: a panel of N >= 2 dates yields returns on exactly the N-1
\* dates after the first, and for every symbol and such date
\* price[d-1] * (1 + return[d]) = price[d] (read either exactly or as the
\* floating-point evaluation of the left side)
C10_RoundTripExact ==
    (ReturnsDone /\ Len(data) >= 2) =>
        /\ Len(daily_returns) = Len(data) - 1
        /\ Dates(daily_returns) = Dates(data) \ {data[1].date}
        /\ \A d \in Dates(daily_returns) : \A c \in 1..Len(tickers) :
              LET prev == data[RowOf(data, PrevDate(data, d))].vals[c]
                  price == data[RowOf(data, d)].vals[c]
                  ret == daily_returns[RowOf(daily_returns, d)].vals[c]
              IN  \/ RoundTripError(prev, ret, price)[1] = 0
                  \/ FMul(prev, FAdd(One, ret)) = price

\* C10 amended: the returns are on exactly the N-1 dates after the first,
\* and the round trip recovers the price to within rounding:
\* |price[d-1] * (1 + return[d]) - price[d]|
\*     <= 2^(1-MantBits) * (price[d-1] + price[d])
C10_RoundTripWithinRounding ==
    (ReturnsDone /\ Len(data) >= 2) =>
        /\ Len(daily_returns) = Len(data) - 1
        /\ Dates(daily_returns) = Dates(data) \ {data[1].date}
        /\ \A d \in Dates(daily_returns) : \A c \in 1..Len(tickers) :
              LET prev == data[RowOf(data, PrevDate(data, d))].vals[c]
                  price == data[RowOf(data, d)].vals[c]
                  ret == daily_returns[RowOf(daily_returns, d)].vals[c]
              IN  XLeq(XMul(<<Pow2(MantBits - 1), 0>>,
                            XAbs(RoundTripError(prev, ret, price))),
                       XAdd(prev, price))

\* a panel whose returns were computed and where one round trip is inexact
C10_Witness ==
    /\ ReturnsDone
    /\ Len(data) >= 3
    /\ \E i \in 1..Len(daily_returns) : \E c \in 1..Len(tickers) :
          RoundTripError(data[i].vals[c], daily_returns[i].vals[c],
                         data[i + 1].vals[c])[1] # 0


\* the rows of df on the w latest dates up to and including d, oldest first
Trailing(df, d, w) ==
    LET upto == {i \in 1..Len(df) : df[i].date <= d}
        kept == {i \in upto : Cardinality({j \in upto : df[j].date > df[i].date}) < w}
    IN  SelectSeq([i \in 1..Len(df) |-> IF i \in kept THEN <<df[i]>> ELSE <<>>],
                  LAMBDA r : r # <<>>)

TrailingValues(df, d, w, c) ==
    LET rows == Trailing(df, d, w)
    IN  [k \in 1..Len(rows) |-> rows[k][1].vals[c]]

\* C9: with M >= window dates of returns the scores are on exactly the
\* M - window + 1 latest dates, and each score is the mean (Momentum) or
\* minus the sample standard deviation (Low Volatility) of the symbol's
\* returns on the `window` dates ending at the score's date, inclusive
C9_ScoresDropLeadingWindow ==
    (ScoresDone /\ Len(daily_returns) >= window) =>
        /\ Len(scores) = Len(daily_returns) - window + 1
        /\ Dates(scores) =
              {d \in Dates(daily_returns) :
                  Cardinality({e \in Dates(daily_returns) : e < d}) >= window - 1}
        /\ \A j \in 1..Len(scores) : \A c \in 1..Len(tickers) :
              LET xs == TrailingValues(daily_returns, scores[j].date, window, c)
              IN  /\ Len(xs) = window
                  /\ scores[j].vals[c] =
                        IF strategy = "Momentum" THEN FMean(xs)
                        ELSE FNeg(FStd(xs))

\* scores were computed from more returns than one window holds, so that
\* leading dates were dropped and several dates are scored, with a score
\* that differs from one date to the next
C9_Witness ==
    /\ ScoresDone
    /\ window > 1
    /\ Len(daily_returns) > window
    /\ Len(scores) >= 2
    /\ scores[1].vals # scores[2].vals

\* C8: the cumulative series has the dates of the portfolio return series,
\* starts at 1 + the first return, multiplies by 1 + return at every later
\* date, and the total return is its last value minus 1
C8_CumulativeGrowth ==
    SeriesDone =>
        /\ Index(cumulative_returns) = Index(portfolio_returns)
        /\ \A i \in 1..Len(cumulative_returns) :
              cumulative_returns[i].val =
                 IF i = 1 THEN FAdd(One, portfolio_returns[1].val)
                 ELSE FMul(cumulative_returns[i - 1].val,
                           FAdd(One, portfolio_returns[i].val))
        /\ total_return # Unset =>
              total_return =
                 FSub(cumulative_returns[Len(cumulative_returns)].val, One)

\* a run that got its total return from a series of several dates whose
\* growth is not the same at all of them
C8_Witness ==
    /\ total_return # Unset
    /\ Len(cumulative_returns) >= 3
    /\ cumulative_returns[1].val # cumulative_returns[2].val
    /\ cumulative_returns[2].val # cumulative_returns[3].val

\* C7: the return appended for a scored date is the mean of the returns, on
\* that same date, of the symbols selected for it; the series has one entry
\* per scored date, in strictly increasing date order
C7_PortfolioIsMeanOfSelected ==
    /\ Len(portfolio_returns) > 0 =>
          LET last == portfolio_returns[Len(portfolio_returns)]
              rows == {r \in Range(daily_returns) : r.date = last.date}
          IN  /\ last.date = date
              /\ Cardinality(rows) = 1
              /\ \A r \in rows :
                    last.val =
                       FMean([k \in 1..Len(top_stocks) |->
                                 r.vals[CHOOSE c \in 1..Len(tickers) :
                                           tickers[c] = top_stocks[k]]])
    /\ ScoresDone =>
          /\ Len(portfolio_returns) <= Len(scores)
          /\ \A i \in 1..Len(portfolio_returns) :
                portfolio_returns[i].date = scores[i].date
          /\ \A i, j \in 1..Len(portfolio_returns) :
                i < j => portfolio_returns[i].date < portfolio_returns[j].date
    /\ SeriesDone => Len(portfolio_returns) = Len(scores)

\* the loop is past its first date, with fewer symbols selected than there
\* are, and the returns of the date differ between the symbols
C7_Witness ==
    /\ Len(portfolio_returns) >= 2
    /\ Len(top_stocks) < Len(tickers)
    /\ \E r \in Range(daily_returns) :
          r.date = date /\ r.vals[1] # r.vals[2]


\* the selection of the current date as column positions, and its scores
SelectedPos == [k \in 1..Len(top_stocks) |->
                   CHOOSE c \in 1..Len(tickers) : tickers[c] = top_stocks[k]]
ScoresAtDate == scores[RowOf(scores, date)].vals
Unselected == (1..Len(tickers)) \ Range(SelectedPos)

\* top_stocks holds exactly top_n distinct symbols, in descending score
\* order, none of them scoring below a symbol left out
SelectionIsTopN ==
    /\ Len(top_stocks) = top_n
    /\ Cardinality(Range(top_stocks)) = top_n
    /\ Range(top_stocks) \subseteq Range(tickers)
    /\ \A i, j \in 1..Len(top_stocks) :
          i < j => ~FLess(ScoresAtDate[SelectedPos[i]], ScoresAtDate[SelectedPos[j]])
    /\ \A i \in 1..Len(top_stocks) : \A u \in Unselected :
          ~FLess(ScoresAtDate[SelectedPos[i]], ScoresAtDate[u])

\* among equal scores the symbol that comes first in the original order is
\* listed first, and is the one selected
TiesByOriginalOrder ==
    /\ \A i, j \in 1..Len(top_stocks) :
          (i < j /\ ScoresAtDate[SelectedPos[i]] = ScoresAtDate[SelectedPos[j]])
             => SelectedPos[i] < SelectedPos[j]
    /\ \A i \in 1..Len(top_stocks) : \A u \in Unselected :
          ScoresAtDate[SelectedPos[i]] = ScoresAtDate[u] => SelectedPos[i] < u

Degenerate ==
    \/ Len(portfolio_returns) < 2
    \/ FStd(Values(portfolio_returns)) = Zero

\* C3: when the portfolio return series has zero standard deviation or
\* fewer than 2 points, no Sharpe ratio is produced
C3_DegenerateHasNoSharpe ==
    (SeriesDone /\ Degenerate) => ~MetricShown("Sharpe Ratio")

\* C4 as stated: a run never shows both a performance figure and an error
C4_NoFigureWithError ==
    Shown("error") # {} => Shown("metric") = {}

\* the position in ui of the first element of a kind
FirstOf(kind) == CHOOSE i \in 1..Len(ui) :
                    ui[i].kind = kind /\ \A j \in 1..(i - 1) : ui[j].kind # kind

\* C4 amended: a failure up to and including the summary's computation (no
\* data, an empty series) leaves no performance figure shown; a failure of
\* the benchmark comparison or of the report comes after both figures were
\* shown, and the run ends with the figures and the error
C4_FigureOnlyWithLateError ==
    /\ \A e \in Shown("error") :
          IF e.label \in {"KeyError", "FileNotFoundError"}
          THEN /\ MetricShown("Sharpe Ratio") /\ MetricShown("Total Return")
               /\ FirstOf("metric") < FirstOf("error")
          ELSE Shown("metric") = {}
    /\ Cardinality(Shown("error")) <= 1
    /\ pc \in {"failed", "stopped"} <=> (Shown("error") # {} \/ Shown("warning") # {})

\* a run that showed its figures and then failed
C4_Witness ==
    /\ pc = "failed"
    /\ MetricShown("Sharpe Ratio")
    /\ ErrorShown("FileNotFoundError") \/ ErrorShown("KeyError")

\* C5: the benchmark's total return is the growth of the benchmark over
\* exactly the strategy's dates, minus 1, and its Sharpe ratio is that of
\* the benchmark's returns on those dates
C5_BenchmarkOverStrategyDates ==
    pc \in {"plot2", "render", "write", "done"} =>
        LET on_dates == [i \in 1..Len(portfolio_returns) |->
                            CHOOSE r \in Range(AsSeries(pct_change(benchmark_data))) :
                               r.date = portfolio_returns[i].date]
            growth == CumProd(Values(on_dates))
        IN  /\ benchmark_total = FSub(growth[Len(growth)], One)
            /\ benchmark_sharpe = sharpe(Values(on_dates))

\* C6: once the price source has returned nothing, the run has stopped with
\* the no-data error and nothing else: no returns, scores, selection,
\* benchmark, report or figure
C6_NoDataStopsRun ==
    (pc \notin {"idle", "download"} /\ Len(tickers) > 0 /\ Len(data) = 0) =>
        /\ pc = "stopped"
        /\ ui = <<Element("error", "No data found. Please check tickers or dates.", Unset)>>
        /\ daily_returns = <<>> /\ scores = <<>>
        /\ top_stocks = <<>> /\ portfolio_returns = <<>>
        /\ cumulative_returns = <<>>
        /\ sharpe_ratio = Unset /\ total_return = Unset
        /\ benchmark_data = <<>> /\ benchmark_returns = <<>>
        /\ benchmark_sharpe = Unset /\ benchmark_total = Unset
        /\ html_out = Unset /\ report_file = Unset

\* the price source returned nothing for a valid ticker list
C6_Witness ==
    /\ pc = "stopped"
    /\ Len(tickers) > 0
    /\ Len(data) = 0
    /\ ErrorShown("No data found. Please check tickers or dates.")

====
